---- MODULE Spec2Model ----
(***************************************************************************)
(* Model of the SiFive MMIO UART driver (src/src/lib.rs).                  *)
(*                                                                         *)
(* The driver's only state is base_addr; everything else lives in the      *)
(* seven 32-bit registers of the controller.  Every volatile register      *)
(* access is one step of the model, so that the hardware can change the    *)
(* registers it owns (TXDATA, RXDATA) between any two accesses.            *)
(***************************************************************************)
EXTENDS Integers, Naturals, Sequences, FiniteSets, TLC

(***************************************************************************)
(* u32 values.  TLC's integers are 32-bit signed, so a u32 is held as its  *)
(* bit 31 (top) and its low 31 bits (low).                                 *)
(***************************************************************************)
W(t, l) == [top |-> t, low |-> l]

U32(n) == W(FALSE, n)

(* w << 1 on u32: bit 30 moves into bit 31, bit 31 is shifted out *)
Double(w) == W(w.low >= 1073741824, (w.low % 1073741824) * 2)

RECURSIVE Shl(_, _)
Shl(v, k) == IF k = 0 THEN U32(v) ELSE Double(Shl(v, k - 1))

RECURSIVE AndN(_, _, _)
AndN(a, b, n) ==
    IF n = 0 THEN 0
    ELSE (a % 2) * (b % 2) + 2 * AndN(a \div 2, b \div 2, n - 1)

RECURSIVE OrN(_, _, _)
OrN(a, b, n) ==
    IF n = 0 THEN 0
    ELSE (IF a % 2 = 1 \/ b % 2 = 1 THEN 1 ELSE 0)
         + 2 * OrN(a \div 2, b \div 2, n - 1)

(* the u32 operators &, | and ! *)
BitAnd(a, b) == W(a.top /\ b.top, AndN(a.low, b.low, 31))

BitOr(a, b) == W(a.top \/ b.top, OrN(a.low, b.low, 31))

BitNot(a) == W(~a.top, 2147483647 - a.low)

(* the byte taken without the mask *)
LowByte_nomask(w) == w.low

(* (w & 0xff) as u8 *)
LowByte(w) == BitAnd(w, U32(255)).low

(* bit k of a word, as 0 or 1: used to state properties, not by the driver *)
RECURSIVE Pow2(_)
Pow2(k) == IF k = 0 THEN 1 ELSE 2 * Pow2(k - 1)

Bit(w, k) == IF k = 31 THEN (IF w.top THEN 1 ELSE 0)
             ELSE (w.low \div Pow2(k)) % 2

(***************************************************************************)
(* Register map and control bits                                           *)
(***************************************************************************)
REG_TOTAL_SIZE_six == 6 * 4

REG_TOTAL_SIZE == 7 * 4

REG_TXDATA == 0 * 4
REG_RXDATA == 1 * 4
REG_TXCTRL == 2 * 4
REG_RXCTRL == 3 * 4
REG_IE_as_IP == 5 * 4

REG_IE     == 4 * 4
REG_IP     == 5 * 4
REG_DIV_as_RXCTRL == 3 * 4

REG_DIV    == 6 * 4

REG_IE_TXWM      == Shl(1, 0)
REG_IE_RXWM_bit2 == Shl(1, 2)

REG_IE_RXWM      == Shl(1, 1)
REG_TXCTRL_TXEN  == Shl(1, 0)
REG_TXCTRL_TXCNT == Shl(1, 16)
REG_RXCTRL_RXEN  == Shl(1, 0)
REG_RXCTRL_RXCNT_as_tx == Shl(1, 16)

REG_RXCTRL_RXCNT == Shl(6, 16)
REG_TXDATA_FULL  == Shl(1, 31)
REG_RXDATA_EMPTY_bit30 == Shl(1, 30)

REG_RXDATA_EMPTY == Shl(1, 31)

LOOP_MAX_short == 1000 - 1

LOOP_MAX_long == 1000 + 1

LOOP_MAX == 1000

Regs == {REG_TXDATA, REG_RXDATA, REG_TXCTRL, REG_RXCTRL, REG_IE, REG_IP, REG_DIV}

(***************************************************************************)
(* The environment: where controllers are mapped, what the register block  *)
(* holds before the driver touches it, what the hardware presents in the   *)
(* registers it owns, and the arguments callers pass.                      *)
(***************************************************************************)
BaseAddrs == {268500992, 268505088}      \* 0x10010000, 0x10011000

Addrs == {b + r : b \in BaseAddrs, r \in Regs}

Zero == U32(0)

AllOnes == W(TRUE, 2147483647)

(* a fresh (zeroed) block, and a block left in an arbitrary state *)
FreshBlock == [r \in Regs |-> Zero]

DirtyBlock == [r \in Regs |->
    IF r = REG_IE THEN W(TRUE, 36)                \* bits 31, 5, 2
    ELSE IF r = REG_IP THEN U32(3)
    ELSE IF r = REG_DIV THEN U32(277)
    ELSE IF r = REG_TXDATA THEN W(TRUE, 0)
    ELSE IF r = REG_RXDATA THEN W(TRUE, 0)
    ELSE AllOnes]

(* the address space before any controller exists: a fresh block behind the
   first base address, a dirty one behind the second *)
InitMem == [a \in Addrs |->
    IF \E r \in Regs : a = 268500992 + r
    THEN FreshBlock[a - 268500992]
    ELSE DirtyBlock[a - 268505088]]

(* words the hardware may show in TXDATA: full, and not full *)
TxWords == {W(TRUE, 0), Zero}

(* words the hardware may show in RXDATA: empty (with a stale byte), and a
   received byte 0x42 with the don't-care bits 8..30 set *)
RxWords == {W(TRUE, 90), W(FALSE, 2147483458)}   \* 0x8000005a, 0x7fffff42

Bytes == {65, 255}

(* the (baud, bus_freq) pairs callers pass to set_baud *)
BaudArgs == {<<115200, 32000000>>, <<9600, 19660800>>, <<115200, 9600>>,
             <<9600, 0>>, <<0, 32000000>>, <<0, 19660800>>}

(* the bytes that arrive on the line, and how many arrive in all *)
RxBytes == {65, 66}

MaxArrivals == 3

(* what a simulated register block holds in TXDATA and in RXDATA *)
SimTx == {W(TRUE, 0), Zero}

SimRx == {W(TRUE, 90), U32(66), W(FALSE, 2147483458)}   \* .., 0x42, 0x7fffff42

SimMem(t, r) == [a \in Addrs |->
    IF \E b \in BaseAddrs : a = b + REG_TXDATA THEN t
    ELSE IF \E b \in BaseAddrs : a = b + REG_RXDATA THEN r
    ELSE InitMem[a]]

VARIABLES
    base_addr,   \* UART.base_addr; 0 while no controller exists
    mem,         \* the address space: address -> u32
    pc,          \* where the driver is
    op,          \* the operation running, or the last one that ran
    i,           \* completed iterations of the running poll loop
    val,         \* local of is_transmit_full / is_data_empty
    flags,       \* local of the two irq toggles
    to_send,     \* argument of send_byte
    enable,      \* argument of the irq toggles
    baud,        \* arguments of set_baud
    bus_freq,
    result,      \* outcome of the call: "pending", "Ok", a Fault, "panic"
    retval,      \* value returned with Ok, where there is one
    nrd,         \* per call: reads of each register
    nwr,         \* per call: writes of each register
    all_set,     \* per call: every poll so far found bit 31 set
    before,      \* the irq toggle that returned just before this call, if any
    mem0,        \* per call: the driver's registers when the call was made
    hw,          \* what is behind the registers: "live", "sim" or "fifo"
    rxfifo,      \* "fifo" hardware: the received bytes not yet read
    taken,       \* "fifo" hardware: the bytes that reads of RXDATA removed
    got,         \* "fifo" hardware: the bytes read_byte has returned
    cpc,         \* two contexts sharing the controller: where each one is
    cflags,      \*   its local flags
    cenable,     \*   its argument
    overlapped   \*   one has been called while the other was in its call

Conc == <<cpc, cflags, cenable, overlapped>>

(* what no method of the driver changes, once the controller exists *)
Fixed == <<base_addr, hw, Conc>>

vars == <<base_addr, mem, pc, op, i, val, flags, to_send, enable, baud,
          bus_freq, result, retval, nrd, nwr, all_set, before, mem0,
          hw, rxfifo, taken, got, cpc, cflags, cenable, overlapped>>

(* the two contexts: "main" calls enable_tx_watermark_irq, "isr" calls
   enable_rx_watermark_irq *)
Ctxs == {"main", "isr"}

NoAccess == [r \in Regs |-> 0]

NoToggle == [op |-> "none", enable |-> FALSE, ie |-> Zero]

(* the registers only the driver changes, as a call finds them; the two
   data registers, which the hardware changes at will, are left out *)
Snapshot(m, base) ==
    [a \in Addrs |->
        IF a = base + REG_TXDATA \/ a = base + REG_RXDATA THEN Zero ELSE m[a]]

InitWith(h, m) ==
    /\ base_addr = 0
    /\ mem = m
    /\ hw = h
    /\ rxfifo = <<>>
    /\ taken = <<>>
    /\ got = <<>>
    /\ cpc = [c \in Ctxs |-> "idle"]
    /\ cflags = [c \in Ctxs |-> Zero]
    /\ cenable = [c \in Ctxs |-> FALSE]
    /\ overlapped = FALSE
    /\ pc = "none"
    /\ op = "none"
    /\ i = 0
    /\ val = Zero
    /\ flags = Zero
    /\ to_send = 0
    /\ enable = FALSE
    /\ baud = 0
    /\ bus_freq = 0
    /\ result = "pending"
    /\ retval = 0
    /\ nrd = NoAccess
    /\ nwr = NoAccess
    /\ all_set = TRUE
    /\ before = NoToggle
    /\ mem0 = Snapshot(m, 0)

(* real hardware behind both base addresses *)
Init == InitWith("live", InitMem)

(* hardware whose RXDATA is the head of a receive FIFO *)
FifoInit == InitWith("fifo", InitMem)

(* a simulated register block: memory that only the driver changes *)
SimInit == \E t \in SimTx, r \in SimRx : InitWith("sim", SimMem(t, r))

(***************************************************************************)
(* Register access                                                         *)
(***************************************************************************)
(* what a volatile read of reg may find.  Live hardware owns TXDATA and
   RXDATA and may have replaced their contents since the last access; a
   simulated block is plain memory; the receive FIFO shows its head byte,
   or the empty bit when it holds nothing *)
HwPresents(reg) ==
    IF hw = "sim" THEN {mem[base_addr + reg]}
    ELSE IF hw = "fifo" /\ reg = REG_RXDATA
    THEN {IF rxfifo = <<>> THEN W(TRUE, 0) ELSE U32(Head(rxfifo))}
    ELSE IF reg = REG_TXDATA THEN TxWords \cup {mem[base_addr + reg]}
    ELSE IF reg = REG_RXDATA THEN RxWords \cup {mem[base_addr + reg]}
    ELSE {mem[base_addr + reg]}

write_reg(reg, v) ==
    /\ mem' = [mem EXCEPT ![base_addr + reg] = v]
    /\ nwr' = [nwr EXCEPT ![reg] = @ + 1]
    /\ UNCHANGED <<nrd, rxfifo, taken>>

(* read_reg returning w; a read of RXDATA takes the head byte off the FIFO *)
read_reg(reg, w) ==
    /\ w \in HwPresents(reg)
    /\ mem' = [mem EXCEPT ![base_addr + reg] = w]
    /\ nrd' = [nrd EXCEPT ![reg] = @ + 1]
    /\ IF hw = "fifo" /\ reg = REG_RXDATA /\ rxfifo # <<>>
       THEN /\ rxfifo' = Tail(rxfifo)
            /\ taken' = Append(taken, Head(rxfifo))
       ELSE UNCHANGED <<rxfifo, taken>>
    /\ UNCHANGED nwr

(* a division that rounds to nearest instead of truncating *)
U32Div_rounding(n, d) == U32((n + d \div 2) \div d)

(* u32 / u32, for a non-zero divisor *)
U32Div(n, d) == U32(n \div d)

(* entry of a call: fresh locals and fresh per-call bookkeeping *)
Enter(name, at, base) ==
    /\ op' = name
    /\ pc' = at
    /\ i' = 0
    /\ val' = Zero
    /\ flags' = Zero
    /\ result' = "pending"
    /\ retval' = 0
    /\ nrd' = NoAccess
    /\ nwr' = NoAccess
    /\ all_set' = TRUE
    /\ mem0' = Snapshot(mem, base)
    /\ UNCHANGED <<mem, rxfifo, taken, got>>

(* what the next call remembers of the call that has just returned *)
Toggled ==
    IF pc = "idle" /\ op \in {"enable_tx_watermark_irq", "enable_rx_watermark_irq"}
    THEN [op |-> op, enable |-> enable, ie |-> mem0[base_addr + REG_IE]]
    ELSE NoToggle

Return(res, v) ==
    /\ pc' = "idle"
    /\ result' = res
    /\ retval' = v
    /\ got' = IF hw = "fifo" /\ op = "read_byte" /\ res = "Ok"
              THEN Append(got, v)
              ELSE got

NoArgs ==
    /\ to_send' = 0
    /\ enable' = FALSE
    /\ baud' = 0
    /\ bus_freq' = 0

Args == <<to_send, enable, baud, bus_freq>>

(***************************************************************************)
(* UART::new                                                               *)
(***************************************************************************)
new(b) ==
    /\ pc = "none"
    /\ base_addr' = b
    /\ Enter("new", "new_txctrl", b)
    /\ before' = NoToggle
    /\ NoArgs
    /\ UNCHANGED <<hw, Conc>>

new_txctrl ==
    /\ pc = "new_txctrl"
    /\ write_reg(REG_TXCTRL, BitOr(REG_TXCTRL_TXCNT, REG_TXCTRL_TXEN))
    /\ pc' = "new_rxctrl"
    /\ UNCHANGED <<Fixed, op, i, val, flags, Args, result, retval, got, all_set, before, mem0>>

new_rxctrl ==
    /\ pc = "new_rxctrl"
    /\ write_reg(REG_RXCTRL, BitOr(REG_RXCTRL_RXCNT, REG_RXCTRL_RXEN))
    /\ Return("Ok", 0)
    /\ UNCHANGED <<Fixed, op, i, val, flags, Args, all_set, before, mem0>>

(***************************************************************************)
(* UART::enable_tx_watermark_irq, UART::enable_rx_watermark_irq            *)
(***************************************************************************)
(* a toggle that flips the bit instead of setting it *)
tx_watermark_flags_flip(f, e) ==
    IF e = TRUE
    THEN (IF Bit(f, 0) = 1 THEN BitAnd(f, BitNot(REG_IE_TXWM)) ELSE BitOr(f, REG_IE_TXWM))
    ELSE BitAnd(f, BitNot(REG_IE_TXWM))

(* the rx toggle pasted from the tx one with the bit left as it was *)
rx_watermark_flags_pasted(f, e) ==
    IF e = TRUE
    THEN BitOr(f, REG_IE_TXWM)
    ELSE BitAnd(f, BitNot(REG_IE_TXWM))

(* the value each toggle writes back to IE *)
tx_watermark_flags(f, e) ==
    IF e = TRUE
    THEN BitOr(f, REG_IE_TXWM)
    ELSE BitAnd(f, BitNot(REG_IE_TXWM))

rx_watermark_flags(f, e) ==
    IF e = TRUE
    THEN BitOr(f, REG_IE_RXWM)
    ELSE BitAnd(f, BitNot(REG_IE_RXWM))

enable_tx_watermark_irq(e) ==
    /\ pc = "idle"
    /\ Enter("enable_tx_watermark_irq", "tx_irq_read", base_addr)
    /\ before' = Toggled
    /\ enable' = e
    /\ to_send' = 0 /\ baud' = 0 /\ bus_freq' = 0
    /\ UNCHANGED Fixed

tx_irq_read ==
    /\ pc = "tx_irq_read"
    /\ \E w \in HwPresents(REG_IE) :
          /\ read_reg(REG_IE, w)
          /\ flags' = w
    /\ pc' = "tx_irq_write"
    /\ UNCHANGED <<Fixed, op, i, val, Args, result, retval, got, all_set, before, mem0>>

tx_irq_write ==
    /\ pc = "tx_irq_write"
    /\ write_reg(REG_IE, tx_watermark_flags(flags, enable))
    /\ Return("Ok", 0)
    /\ UNCHANGED <<Fixed, op, i, val, flags, Args, all_set, before, mem0>>

enable_rx_watermark_irq(e) ==
    /\ pc = "idle"
    /\ Enter("enable_rx_watermark_irq", "rx_irq_read", base_addr)
    /\ before' = Toggled
    /\ enable' = e
    /\ to_send' = 0 /\ baud' = 0 /\ bus_freq' = 0
    /\ UNCHANGED Fixed

rx_irq_read ==
    /\ pc = "rx_irq_read"
    /\ \E w \in HwPresents(REG_IE) :
          /\ read_reg(REG_IE, w)
          /\ flags' = w
    /\ pc' = "rx_irq_write"
    /\ UNCHANGED <<Fixed, op, i, val, Args, result, retval, got, all_set, before, mem0>>

rx_irq_write ==
    /\ pc = "rx_irq_write"
    /\ write_reg(REG_IE, rx_watermark_flags(flags, enable))
    /\ Return("Ok", 0)
    /\ UNCHANGED <<Fixed, op, i, val, flags, Args, all_set, before, mem0>>

(***************************************************************************)
(* UART::set_baud                                                          *)
(***************************************************************************)
set_baud(b, f) ==
    /\ pc = "idle"
    /\ Enter("set_baud", "set_baud", base_addr)
    /\ before' = NoToggle
    /\ baud' = b
    /\ bus_freq' = f
    /\ to_send' = 0 /\ enable' = FALSE
    /\ UNCHANGED Fixed

(* a division that yields all ones on a zero divisor instead of panicking *)
set_baud_write_unchecked ==
    /\ pc = "set_baud"
    /\ write_reg(REG_DIV, IF baud = 0 THEN AllOnes ELSE U32Div(bus_freq, baud))
    /\ Return("Ok", 0)
    /\ UNCHANGED <<Fixed, op, i, val, flags, Args, all_set, before, mem0>>

(* the division panics on a zero divisor, before write_reg is entered *)
set_baud_write ==
    /\ pc = "set_baud"
    /\ IF baud = 0
       THEN /\ pc' = "panicked"
            /\ result' = "panic"
            /\ UNCHANGED <<mem, nrd, nwr, retval, rxfifo, taken, got>>
       ELSE /\ write_reg(REG_DIV, U32Div(bus_freq, baud))
            /\ Return("Ok", 0)
    /\ UNCHANGED <<Fixed, op, i, val, flags, Args, all_set, before, mem0>>

(***************************************************************************)
(* UART::size                                                              *)
(***************************************************************************)
size ==
    /\ pc = "idle"
    /\ op' = "size"
    /\ i' = 0 /\ val' = Zero /\ flags' = Zero
    /\ nrd' = NoAccess /\ nwr' = NoAccess /\ mem0' = Snapshot(mem, base_addr)
    /\ all_set' = TRUE /\ before' = NoToggle
    /\ NoArgs
    /\ Return("Ok", REG_TOTAL_SIZE)
    /\ UNCHANGED <<Fixed, mem, rxfifo, taken>>

(***************************************************************************)
(* UART::send_byte, with is_transmit_full inlined in the poll step         *)
(***************************************************************************)
send_byte(b) ==
    /\ pc = "idle"
    /\ Enter("send_byte", "send_poll", base_addr)
    /\ before' = NoToggle
    /\ to_send' = b
    /\ enable' = FALSE /\ baud' = 0 /\ bus_freq' = 0
    /\ UNCHANGED Fixed

(* a cast that sign-extends the byte *)
as_u32_signed(b) == IF b >= 128 THEN W(TRUE, 2147483647 - 255 + b) ELSE U32(b)

(* to_send as u32 *)
as_u32(b) == U32(b)

is_transmit_full(w) == BitAnd(w, REG_TXDATA_FULL) # Zero

send_poll ==
    /\ pc = "send_poll"
    /\ i < LOOP_MAX
    /\ \E w \in HwPresents(REG_TXDATA) :
          /\ read_reg(REG_TXDATA, w)
          /\ val' = w
          /\ all_set' = (all_set /\ w.top)
          /\ IF is_transmit_full(w) = FALSE
             THEN pc' = "send_write" /\ i' = i
             ELSE pc' = "send_poll" /\ i' = i + 1
    /\ UNCHANGED <<Fixed, op, flags, Args, result, retval, got, before, mem0>>

send_write ==
    /\ pc = "send_write"
    /\ write_reg(REG_TXDATA, as_u32(to_send))
    /\ Return("Ok", 0)
    /\ UNCHANGED <<Fixed, op, i, val, flags, Args, all_set, before, mem0>>

(* giving up with the fault of the other direction *)
send_give_up_wrong_fault ==
    /\ pc = "send_poll"
    /\ ~(i < LOOP_MAX)
    /\ Return("DataNotReady", 0)
    /\ UNCHANGED <<Fixed, mem, rxfifo, taken, op, i, val, flags, Args, nrd, nwr, all_set, before, mem0>>

send_give_up ==
    /\ pc = "send_poll"
    /\ ~(i < LOOP_MAX)
    /\ Return("TxNotEmpty", 0)
    /\ UNCHANGED <<Fixed, mem, rxfifo, taken, op, i, val, flags, Args, nrd, nwr, all_set, before, mem0>>

(***************************************************************************)
(* UART::read_byte, with is_data_empty inlined in the poll step            *)
(***************************************************************************)
read_byte ==
    /\ pc = "idle"
    /\ Enter("read_byte", "read_poll", base_addr)
    /\ before' = NoToggle
    /\ NoArgs
    /\ UNCHANGED Fixed

is_data_empty(w) == BitAnd(w, REG_RXDATA_EMPTY) # Zero

read_poll ==
    /\ pc = "read_poll"
    /\ i < LOOP_MAX
    /\ \E w \in HwPresents(REG_RXDATA) :
          /\ read_reg(REG_RXDATA, w)
          /\ val' = w
          /\ all_set' = (all_set /\ w.top)
          /\ IF is_data_empty(w) = FALSE
             THEN pc' = "read_data" /\ i' = i
             ELSE pc' = "read_poll" /\ i' = i + 1
    /\ UNCHANGED <<Fixed, op, flags, Args, result, retval, got, before, mem0>>

(* the return statement reads RXDATA again *)
read_data ==
    /\ pc = "read_data"
    /\ \E w \in HwPresents(REG_RXDATA) :
          /\ read_reg(REG_RXDATA, w)
          /\ Return("Ok", LowByte(w))
    /\ UNCHANGED <<Fixed, op, i, val, flags, Args, all_set, before, mem0>>

read_give_up ==
    /\ pc = "read_poll"
    /\ ~(i < LOOP_MAX)
    /\ Return("DataNotReady", 0)
    /\ UNCHANGED <<Fixed, mem, rxfifo, taken, op, i, val, flags, Args, nrd, nwr, all_set, before, mem0>>

(***************************************************************************)
(* Two contexts sharing one controller with no lock between them: "main"   *)
(* runs enable_tx_watermark_irq and "isr" runs enable_rx_watermark_irq,    *)
(* each register access being one step                                     *)
(***************************************************************************)
Single == <<base_addr, hw, pc, op, i, val, flags, Args, result, retval,
            nrd, nwr, all_set, before, mem0, rxfifo, taken, got>>

conc_call(c, e) ==
    /\ pc = "idle"
    /\ cpc[c] = "idle"
    /\ cpc' = [cpc EXCEPT ![c] = "read"]
    /\ cenable' = [cenable EXCEPT ![c] = e]
    /\ overlapped' = (overlapped \/ \E d \in Ctxs \ {c} : cpc[d] \in {"read", "write"})
    /\ UNCHANGED <<Single, mem, cflags>>

(* let flags = self.read_reg(REG_IE) *)
conc_read(c) ==
    /\ cpc[c] = "read"
    /\ \E w \in HwPresents(REG_IE) : cflags' = [cflags EXCEPT ![c] = w]
    /\ cpc' = [cpc EXCEPT ![c] = "write"]
    /\ UNCHANGED <<Single, mem, cenable, overlapped>>

(* self.write_reg(REG_IE, ...) and return *)
conc_write(c) ==
    /\ cpc[c] = "write"
    /\ mem' = [mem EXCEPT ![base_addr + REG_IE] =
                  IF c = "main"
                  THEN tx_watermark_flags(cflags[c], cenable[c])
                  ELSE rx_watermark_flags(cflags[c], cenable[c])]
    /\ cpc' = [cpc EXCEPT ![c] = "returned"]
    /\ UNCHANGED <<Single, cflags, cenable, overlapped>>

(***************************************************************************)
(* The receiver: a byte arrives and joins the receive FIFO                 *)
(***************************************************************************)
hw_receive(b) ==
    /\ hw = "fifo"
    /\ Len(rxfifo) + Len(taken) < MaxArrivals
    /\ rxfifo' = Append(rxfifo, b)
    /\ UNCHANGED <<Fixed, mem, pc, op, i, val, flags, Args, result, retval,
                   nrd, nwr, all_set, before, mem0, taken, got>>

(***************************************************************************)
(* The driver and its callers                                              *)
(***************************************************************************)
Call ==
    \/ \E b \in BaseAddrs : new(b)
    \/ \E e \in BOOLEAN : enable_tx_watermark_irq(e)
    \/ \E e \in BOOLEAN : enable_rx_watermark_irq(e)
    \/ \E a \in BaudArgs : set_baud(a[1], a[2])
    \/ size
    \/ \E b \in Bytes : send_byte(b)
    \/ read_byte

Step ==
    \/ new_txctrl
    \/ new_rxctrl
    \/ tx_irq_read
    \/ tx_irq_write
    \/ rx_irq_read
    \/ rx_irq_write
    \/ set_baud_write
    \/ send_poll
    \/ send_write
    \/ send_give_up
    \/ read_poll
    \/ read_data
    \/ read_give_up

Next == Call \/ Step

Spec == Init /\ [][Next]_vars

(* a caller that constructs the controller and then only receives, while
   bytes arrive *)
FifoNext ==
    \/ \E b \in BaseAddrs : new(b)
    \/ new_txctrl
    \/ new_rxctrl
    \/ read_byte
    \/ read_poll
    \/ read_data
    \/ read_give_up
    \/ \E b \in RxBytes : hw_receive(b)

FifoSpec == FifoInit /\ [][FifoNext]_vars

(* a controller is constructed, then each of the two contexts makes its
   call, interleaved in any way *)
ConcNext ==
    \/ \E b \in BaseAddrs : new(b)
    \/ new_txctrl
    \/ new_rxctrl
    \/ \E c \in Ctxs, e \in BOOLEAN : conc_call(c, e)
    \/ \E c \in Ctxs : conc_read(c)
    \/ \E c \in Ctxs : conc_write(c)

ConcSpec == Init /\ [][ConcNext]_vars

(* the driver on a simulated register block *)
SimSpec == SimInit /\ [][Next]_vars

(***************************************************************************)
(* Properties                                                              *)
(***************************************************************************)
Returned(name) == pc = "idle" /\ op = name

Reg(r) == mem[base_addr + r]

Reg0(r) == mem0[base_addr + r]

Reads == nrd[REG_TXDATA] + nrd[REG_RXDATA] + nrd[REG_TXCTRL] + nrd[REG_RXCTRL]
         + nrd[REG_IE] + nrd[REG_IP] + nrd[REG_DIV]

Writes == nwr[REG_TXDATA] + nwr[REG_RXDATA] + nwr[REG_TXCTRL] + nwr[REG_RXCTRL]
          + nwr[REG_IE] + nwr[REG_IP] + nwr[REG_DIV]

(* the registers only the driver changes are as the call found them, but for r *)
OthersKept(r) ==
    \A a \in Addrs : a # base_addr + r => Snapshot(mem, base_addr)[a] = mem0[a]

AllKept == \A a \in Addrs : Snapshot(mem, base_addr)[a] = mem0[a]

(* C1: a read_byte that returns Ok(b) takes b from the very RXDATA word whose
   bit 31 it saw clear (b is that word's low 8 bits), and reads RXDATA once
   per poll iteration, with no second read to fetch the data. *)
C1_ByteFromCheckedWord ==
    (Returned("read_byte") /\ result = "Ok")
        => /\ retval = val.low % 256
           /\ nrd[REG_RXDATA] = i + 1

(* C2: while every TXDATA read of a send_byte has found bit 31 set, the call
   has written nothing and touched no other register; when such a call
   returns, it has read TXDATA exactly 1000 times and returns TxNotEmpty. *)
C2_SendGivesUpUntouched ==
    (op = "send_byte" /\ all_set)
        => /\ Writes = 0
           /\ Reads = nrd[REG_TXDATA]
           /\ AllKept
           /\ nrd[REG_TXDATA] <= 1000
           /\ pc = "idle" => (result = "TxNotEmpty" /\ nrd[REG_TXDATA] = 1000)

C2_Witness ==
    /\ Returned("send_byte") /\ all_set
    /\ result = "TxNotEmpty"
    /\ nrd[REG_TXDATA] = 1000

(* C3: a read_byte all of whose RXDATA reads found bit 31 set returns
   DataNotReady, with no byte, after 1000 polls; it writes nothing and reads
   nothing but RXDATA. *)
C3_ReadGivesUpUntouched ==
    (op = "read_byte" /\ all_set)
        => /\ Writes = 0
           /\ Reads = nrd[REG_RXDATA]
           /\ AllKept
           /\ nrd[REG_RXDATA] <= 1000
           /\ result # "Ok"
           /\ retval = 0
           /\ pc = "idle" => (result = "DataNotReady" /\ nrd[REG_RXDATA] = 1000)

C3_Witness ==
    /\ Returned("read_byte") /\ all_set
    /\ result = "DataNotReady"
    /\ nrd[REG_RXDATA] = 1000

(* C4: no call can block or run forever.  A running call always has a next
   step; each step either makes one register access or ends the call; and a
   call makes at most 1001 accesses in at most 1000 poll iterations (at most
   2 accesses and no iteration for the operations other than send_byte and
   read_byte, which have no loop).  So every call ends within 1002 steps. *)
Running == pc \notin {"none", "idle", "panicked"}

C4_Bounded ==
    /\ i <= 1000
    /\ Reads + Writes <= 1001
    /\ op \notin {"send_byte", "read_byte"} => (i = 0 /\ Reads + Writes <= 2)

C4_AlwaysTerminates ==
    /\ [](C4_Bounded /\ (Running => ENABLED Step))
    /\ [][Running => \/ Reads' + Writes' = Reads + Writes + 1
                      \/ ~Running']_vars

C4_Witness ==
    /\ pc = "idle" /\ op \in {"send_byte", "read_byte"}
    /\ result = "Ok"
    /\ i = 999
    /\ Reads + Writes = 1001

(* C5: send_byte(b) writes nothing while its polls find TXDATA full; the
   first poll that finds bit 31 clear ends the polling, and the call then
   writes TXDATA once, with b zero-extended, and returns Ok with no further
   access. *)
C5_SendWritesOnce ==
    op = "send_byte"
        => /\ pc = "send_poll" => (all_set /\ Writes = 0)
           /\ pc = "send_write" =>
                 /\ ~all_set /\ ~val.top
                 /\ Writes = 0
                 /\ nrd[REG_TXDATA] = i + 1 /\ i < 1000
           /\ (pc = "idle" /\ ~all_set) =>
                 /\ result = "Ok"
                 /\ Writes = 1 /\ nwr[REG_TXDATA] = 1
                 /\ Reads = i + 1 /\ nrd[REG_TXDATA] = i + 1 /\ i < 1000
                 /\ Reg(REG_TXDATA) = [top |-> FALSE, low |-> to_send]
                 /\ to_send < 256

C5_Witness ==
    /\ Returned("send_byte") /\ ~all_set
    /\ to_send = 255
    /\ i = 3
    /\ Reg(REG_TXDATA).low = 255

(* C6: UART::new writes TXCTRL = 0x00010001 and RXCTRL = 0x00060001, once
   each, and reads or writes nothing else: every other register of the
   address space is as it was. *)
C6_NewWritesCtrlOnly ==
    op = "new"
        => /\ Reads = 0
           /\ Writes = nwr[REG_TXCTRL] + nwr[REG_RXCTRL]
           /\ \A a \in Addrs :
                 a \notin {base_addr + REG_TXCTRL, base_addr + REG_RXCTRL}
                     => mem[a] = InitMem[a]
           /\ pc = "idle" =>
                 /\ result = "Ok"
                 /\ nwr[REG_TXCTRL] = 1 /\ nwr[REG_RXCTRL] = 1
                 /\ Reg(REG_TXCTRL) = [top |-> FALSE, low |-> 65537]
                 /\ Reg(REG_RXCTRL) = [top |-> FALSE, low |-> 393217]

C6_Witness ==
    /\ Returned("new")
    /\ base_addr = 268505088
    /\ InitMem[base_addr + REG_RXCTRL] # Reg(REG_RXCTRL)
    /\ Reg(REG_RXCTRL).low = 393217

(* C7: a toggle leaves IE as it found it but for its own bit (bit 0 for tx,
   bit 1 for rx), which is 1 after enable and 0 after disable; it writes IE
   once and no other register. *)
OwnBit == IF op = "enable_tx_watermark_irq" THEN 0 ELSE 1

C7_ToggleForcesOneBit ==
    op \in {"enable_tx_watermark_irq", "enable_rx_watermark_irq"}
        => /\ Writes = nwr[REG_IE]
           /\ OthersKept(REG_IE)
           /\ pc # "idle" => Writes = 0
           /\ pc = "idle" =>
                 /\ nwr[REG_IE] = 1
                 /\ \A k \in 0..31 :
                       Bit(Reg(REG_IE), k) =
                           IF k = OwnBit THEN (IF enable THEN 1 ELSE 0)
                           ELSE Bit(Reg0(REG_IE), k)

C7_Witness ==
    /\ Returned("enable_rx_watermark_irq")
    /\ enable
    /\ Reg0(REG_IE) = [top |-> TRUE, low |-> 37]
    /\ Reg(REG_IE) = [top |-> TRUE, low |-> 39]

(* C8: a toggle repeated with the same argument changes nothing the second
   time; disabling a disabled interrupt changes nothing; and enabling tx and
   rx one after the other, in either order, gives the IE they started from
   with bits 0 and 1 both set. *)
C8_Idempotent ==
    (pc = "idle" /\ op \in {"enable_tx_watermark_irq", "enable_rx_watermark_irq"})
        => /\ (before.op = op /\ before.enable = enable)
                 => Reg(REG_IE) = Reg0(REG_IE)
           /\ (~enable /\ Bit(Reg0(REG_IE), OwnBit) = 0)
                 => Reg(REG_IE) = Reg0(REG_IE)
           /\ (before.op \notin {op, "none"} /\ before.enable /\ enable)
                 => \A k \in 0..31 :
                       Bit(Reg(REG_IE), k) =
                           IF k \in {0, 1} THEN 1 ELSE Bit(before.ie, k)

C8_Witness ==
    /\ Returned("enable_tx_watermark_irq") /\ enable
    /\ before.op = "enable_tx_watermark_irq" /\ before.enable
    /\ Bit(before.ie, 0) = 0
    /\ Bit(Reg(REG_IE), 0) = 1

(* C9: in no call does the driver read or write the register at offset 20
   (IP), which keeps the value it had before the driver ran. *)
C9_NeverTouchesIP ==
    /\ nrd[20] = 0
    /\ nwr[20] = 0
    /\ \A b \in BaseAddrs : mem[b + 20] = InitMem[b + 20]

C9_Witness ==
    /\ Returned("read_byte")
    /\ Reg(REG_IE) # InitMem[base_addr + REG_IE]
    /\ Reg(REG_DIV) # InitMem[base_addr + REG_DIV]
    /\ Reg(REG_TXDATA).low \in Bytes
    /\ Reg(REG_IP) = U32(3)

(* C10: set_baud with baud > 0 writes DIV = floor(bus_freq / baud), the q
   with q * baud <= bus_freq < (q + 1) * baud (277 for 32000000 / 115200,
   2048 for 19660800 / 9600), in one write, and reads and writes nothing
   else. *)
C10_DivIsFloor ==
    (op = "set_baud" /\ baud > 0)
        => /\ Reads = 0
           /\ Writes = nwr[REG_DIV]
           /\ OthersKept(REG_DIV)
           /\ pc # "idle" => Writes = 0
           /\ pc = "idle" =>
                 /\ result = "Ok"
                 /\ nwr[REG_DIV] = 1
                 /\ ~Reg(REG_DIV).top
                 /\ Reg(REG_DIV).low * baud <= bus_freq
                 /\ bus_freq < Reg(REG_DIV).low * baud + baud
                 /\ (baud = 115200 /\ bus_freq = 32000000) => Reg(REG_DIV).low = 277
                 /\ (baud = 9600 /\ bus_freq = 19660800) => Reg(REG_DIV).low = 2048

C10_Witness ==
    /\ Returned("set_baud")
    /\ baud = 115200 /\ bus_freq = 32000000
    /\ Reg0(REG_DIV) = Zero
    /\ Reg(REG_DIV) = U32(277)

(* C11: on a register block whose RXDATA holds a word w with bit 31 clear
   and that reads do not change, read_byte returns Ok(w mod 256) in its
   first poll iteration (0x42 for w = 0x00000042) and writes nothing. *)
C11_StableWordReturned ==
    (hw = "sim" /\ op = "read_byte" /\ ~Reg(REG_RXDATA).top)
        => /\ Writes = 0
           /\ i = 0
           /\ pc = "idle" =>
                 /\ result = "Ok"
                 /\ retval = Reg(REG_RXDATA).low % 256
                 /\ Reg(REG_RXDATA) = [top |-> FALSE, low |-> 66] => retval = 66

C11_Witness ==
    /\ hw = "sim"
    /\ Returned("read_byte")
    /\ Reg(REG_RXDATA) = [top |-> FALSE, low |-> 2147483458]
    /\ retval = 66

(* C12: a call returns Ok, TxNotEmpty or DataNotReady and nothing else;
   TxNotEmpty comes only from a send_byte that has polled TXDATA 1000 times
   in vain, DataNotReady only from a read_byte that has polled RXDATA 1000
   times in vain, and UART::new returns Ok whatever the base address and
   the registers behind it.  The one call that does not return is set_baud
   with baud = 0, which ends in the division panic and returns no fault. *)
C12_OnlyTimeoutFaults ==
    /\ pc = "idle" => result \in {"Ok", "TxNotEmpty", "DataNotReady"}
    /\ result = "TxNotEmpty" =>
          /\ Returned("send_byte")
          /\ all_set /\ nrd[REG_TXDATA] = 1000
    /\ result = "DataNotReady" =>
          /\ Returned("read_byte")
          /\ all_set /\ nrd[REG_RXDATA] = 1000
    /\ op = "new" => result \in {"pending", "Ok"}
    /\ Returned("new") => result = "Ok"
    /\ result = "panic" => (op = "set_baud" /\ baud = 0 /\ pc = "panicked")

C12_Witness ==
    /\ Returned("read_byte")
    /\ result = "DataNotReady"
    /\ base_addr = 268505088

(* C13: size returns 28, whatever the registers hold and whatever was
   called before, and accesses no register. *)
C13_SizeIs28 ==
    Returned("size")
        => /\ result = "Ok"
           /\ retval = 28
           /\ Reads = 0 /\ Writes = 0

C13_Witness ==
    /\ Returned("size")
    /\ retval = 28
    /\ Reg(REG_DIV) = U32(2048)
    /\ Reg(REG_IE) = [top |-> TRUE, low |-> 39]

(* C14: set_baud with baud = 0 never returns: it ends in the division
   fault, for every bus_freq, having read and written no register, DIV
   included. *)
C14_ZeroBaudFaults ==
    (op = "set_baud" /\ baud = 0)
        => /\ pc \in {"set_baud", "panicked"}
           /\ pc = "panicked" <=> result = "panic"
           /\ pc = "set_baud" <=> result = "pending"
           /\ Reads = 0 /\ Writes = 0
           /\ AllKept
           /\ ~ENABLED Call

C14_Witness ==
    /\ pc = "panicked"
    /\ baud = 0 /\ bus_freq = 19660800
    /\ Reg(REG_DIV) = U32(277)

(* C16: once UART::new has returned, TXCTRL = 0x00010001 and
   RXCTRL = 0x00060001 in every state, and no later call writes either. *)
C16_CtrlKept ==
    pc \notin {"none", "new_txctrl", "new_rxctrl"}
        => /\ Reg(REG_TXCTRL) = [top |-> FALSE, low |-> 65537]
           /\ Reg(REG_RXCTRL) = [top |-> FALSE, low |-> 393217]
           /\ op # "new" => (nwr[REG_TXCTRL] = 0 /\ nwr[REG_RXCTRL] = 0)

C16_Witness ==
    /\ Returned("send_byte") /\ result = "Ok"
    /\ Reg(REG_DIV) = U32(2048)
    /\ Reg(REG_IE) = [top |-> TRUE, low |-> 39]
    /\ Reg(REG_RXCTRL) = [top |-> FALSE, low |-> 393217]

(* C15: with RXDATA the head of a receive FIFO, the bytes that read_byte
   calls have returned are, in order, exactly the bytes that the driver's
   reads of RXDATA have taken off the FIFO: none lost, none reordered. *)
C15_NoByteLost ==
    (hw = "fifo" /\ pc = "idle") => got = taken

(* C17 as claimed: when enable_tx_watermark_irq(true) and
   enable_rx_watermark_irq(true) have both returned, however their register
   accesses interleaved, IE has bit 0 and bit 1 set. *)
BothEnabled == \A c \in Ctxs : cpc[c] = "returned" /\ cenable[c]

C17_NoLostUpdate ==
    BothEnabled => (Bit(Reg(REG_IE), 0) = 1 /\ Bit(Reg(REG_IE), 1) = 1)

(* C17 as amended: when the two calls have both returned and neither was
   called while the other was in its call (the exclusive access the driver
   expects of its callers), IE is the IE they started from with bit 0 and
   bit 1 set. *)
C17_SerialisedBothSet ==
    (BothEnabled /\ ~overlapped)
        => \A k \in 0..31 :
              Bit(Reg(REG_IE), k) =
                  IF k \in {0, 1} THEN 1 ELSE Bit(InitMem[base_addr + REG_IE], k)

C17_Witness ==
    /\ BothEnabled /\ ~overlapped
    /\ Bit(cflags["main"], 1) = 1
    /\ Reg(REG_IE) = [top |-> TRUE, low |-> 39]

====
